---- MODULE Spec2Model ----
(***************************************************************************)
(* Sales dashboard (src/dashboard.py): the locale-aware numeric parser     *)
(* parse_ptbr, the cached loader carregar_dados and the page script that   *)
(* filters, aggregates and searches the loaded table.                      *)
(*                                                                         *)
(* Conventions.  A Python str is a sequence of one-character strings.  A   *)
(* Python float is modelled as the exact decimal m * 10^(-e) it was        *)
(* parsed from, kept in normal form (e = 0 or m not a multiple of 10), so  *)
(* two texts denoting the same decimal give the same value.  Python's None *)
(* / NaN / NaT are the tagged record None; every value is a tagged record  *)
(* or a sequence, so any two values can be compared.                       *)
(***************************************************************************)
EXTENDS Integers, Sequences, FiniteSets, TLC

VARIABLES
    x,          \* parser specification: the argument handed to parse_ptbr
    parsed,     \* parser specification: Pending, or the outcome of parse_ptbr(x)
    file,       \* vendas.xlsx on disk: Missing or a table [cols, rows]
    cache,      \* st.cache_data entry of carregar_dados: NoEntry or the cached return value
    reads,      \* number of times vendas.xlsx was opened since the last cache invalidation
    runs,       \* number of page runs since the file or the cache last changed
    out         \* what the last page run rendered (NotRun before the first run)

vars == <<x, parsed, file, cache, reads, runs, out>>
parseVars == <<x, parsed>>
pageVars == <<file, cache, reads, runs, out>>

----------------------------------------------------------------------------
(* Bounds of the model *)

\* longest text token enumerated for parse_ptbr
MaxLen == 4
\* most rows of a source table in the page specification
MaxRows == 2
\* most rows of a source table in the cache specification
MaxCacheRows == 1
\* most page runs between two changes of the file or the cache
MaxRuns == 2

----------------------------------------------------------------------------
(* Values *)

None == [tag |-> "None"]
Pending == [tag |-> "Pending"]
\* an exception escaping a function
Raise(e) == [tag |-> "raise", exc |-> e]

RECURSIVE Norm(_, _)
\* the decimal m * 10^(-e) in normal form
Norm(m, e) ==
    IF m = 0 THEN [tag |-> "num", m |-> 0, e |-> 0]
    ELSE IF e > 0 /\ m % 10 = 0 THEN Norm(m \div 10, e - 1)
    ELSE [tag |-> "num", m |-> m, e |-> e]

IsNum(v) == v.tag = "num"

RECURSIVE Pow10(_)
Pow10(n) == IF n = 0 THEN 1 ELSE 10 * Pow10(n - 1)

\* a + b on decimals
Add(a, b) ==
    LET e == IF a.e > b.e THEN a.e ELSE b.e
    IN  Norm(a.m * Pow10(e - a.e) + b.m * Pow10(e - b.e), e)

\* a * b on decimals (used to state the quantity * unit price rule)
Mul(a, b) == Norm(a.m * b.m, a.e + b.e)

\* round(a, 2): to two decimal places, ties to even
Round2(a) ==
    IF a.e <= 2 THEN a
    ELSE LET p == Pow10(a.e - 2)
             q == a.m \div p
             r == a.m - q * p
         IN  IF 2 * r > p \/ (2 * r = p /\ q % 2 = 1)
             THEN Norm(q + 1, 2)
             ELSE Norm(q, 2)

\* cells of the spreadsheet (the duck-typed values a converter receives)
TextCell(s) == [tag |-> "text", s |-> s]
NumCell(m, e) == Norm(m, e)

----------------------------------------------------------------------------
(* Strings *)

DigitChars == <<"0", "1", "2", "3", "4", "5", "6", "7", "8", "9">>
Digit == {DigitChars[i] : i \in 1..Len(DigitChars)}
DigitVal(c) == (CHOOSE i \in 1..Len(DigitChars) : DigitChars[i] = c) - 1
Whitespace == {" "}

RECURSIVE SeqsOfLen(_, _)
SeqsOfLen(S, n) ==
    IF n = 0 THEN {<<>>}
    ELSE {<<c>> \o t : c \in S, t \in SeqsOfLen(S, n - 1)}
SeqsUpTo(S, n) == UNION {SeqsOfLen(S, k) : k \in 0..n}

Count(s, c) == Cardinality({i \in 1..Len(s) : s[i] = c})
Contains(s, c) == \E i \in 1..Len(s) : s[i] = c

\* s.rfind(c): 0-based index of the last occurrence, -1 when there is none
rfind(s, c) ==
    IF Contains(s, c)
    THEN (CHOOSE i \in 1..Len(s) : s[i] = c /\ \A j \in (i + 1)..Len(s) : s[j] # c) - 1
    ELSE -1

\* s.replace(c, '')
Remove(s, c) == LET keep(d) == d # c IN SelectSeq(s, keep)
\* s.replace(c, d) for one-character c and d
Replace(s, c, d) == [i \in 1..Len(s) |-> IF s[i] = c THEN d ELSE s[i]]

RECURSIVE lstrip(_)
lstrip(s) == IF s # <<>> /\ s[1] \in Whitespace THEN lstrip(Tail(s)) ELSE s
RECURSIVE rstrip(_)
rstrip(s) ==
    IF s # <<>> /\ s[Len(s)] \in Whitespace THEN rstrip(SubSeq(s, 1, Len(s) - 1)) ELSE s
\* s.strip()
strip(s) == rstrip(lstrip(s))

RECURSIVE DigitsToInt(_)
DigitsToInt(s) ==
    IF s = <<>> THEN 0
    ELSE 10 * DigitsToInt(SubSeq(s, 1, Len(s) - 1)) + DigitVal(s[Len(s)])

----------------------------------------------------------------------------
(* parse_ptbr *)

\* a stripping that keeps a minus only as the first character
ReSubKeepsLeadingMinusOnly(s) ==
    LET keep(c) == c \in Digit \cup {",", "."}
        t == SelectSeq(s, keep)
    IN  IF s # <<>> /\ s[1] = "-" THEN <<"-">> \o t ELSE t
\* re.sub(r'[^\d,\.-]', '', s): the class keeps digits, ',', '.' and '-'
\* wherever they stand
ReSub(s) ==
    LET keep(c) == c \in Digit \cup {",", ".", "-"}
    IN  SelectSeq(s, keep)

\* the separator branches with find in place of rfind
NormalizeFirstOccurrence(s) ==
    LET find(c) == (CHOOSE i \in 1..Len(s) : s[i] = c /\ \A j \in 1..(i - 1) : s[j] # c)
    IN  IF Contains(s, ",") /\ Contains(s, ".")
        THEN IF find(",") > find(".")
             THEN Replace(Remove(s, "."), ",", ".")
             ELSE Remove(s, ",")
        ELSE IF Contains(s, ",") THEN Replace(s, ",", ".")
        ELSE s
\* the branches on the separators (lines 50-61)
Normalize(s) ==
    IF Contains(s, ",") /\ Contains(s, ".")
    THEN LET pos_comma == rfind(s, ",")
             pos_dot == rfind(s, ".")
         IN  IF pos_comma > pos_dot
             THEN Replace(Remove(s, "."), ",", ".")
             ELSE Remove(s, ",")
    ELSE IF Contains(s, ",") THEN Replace(s, ",", ".")
    ELSE s

\* float(s) for a text of digits, '.' and '-' (all that ReSub and Normalize
\* leave): an optional leading sign, digits with at most one point and at
\* least one digit; anything else raises ValueError
float(s) ==
    LET neg == s # <<>> /\ s[1] = "-"
        body == IF neg THEN Tail(s) ELSE s
        isDigit(c) == c \in Digit
        digits == SelectSeq(body, isDigit)
        ok == /\ \A i \in 1..Len(body) : body[i] \in Digit \cup {"."}
              /\ Count(body, ".") <= 1
              /\ digits # <<>>
        e == IF Contains(body, ".") THEN Len(body) - (rfind(body, ".") + 1) ELSE 0
        m == DigitsToInt(digits)
    IN  IF ok THEN Norm(IF neg THEN -m ELSE m, e) ELSE Raise("ValueError")

\* float(s) without the except clause
TryFloatUncaught(s) == float(s)
\* try: return float(s) / except (ValueError, TypeError): return None
TryFloat(s) ==
    LET r == float(s)
    IN  IF r.tag = "raise" /\ r.exc \in {"ValueError", "TypeError"} THEN None ELSE r

parse_ptbr(v) ==
    IF v = None THEN None
    ELSE IF IsNum(v) THEN v
    ELSE LET s == strip(v.s)
         IN  IF s = <<>> THEN None
             ELSE LET t == ReSub(s)
                  IN  IF t = <<>> THEN None
                      ELSE TryFloat(Normalize(t))

----------------------------------------------------------------------------
(* The spreadsheet vendas.xlsx *)

NumericCols == {"quantidade", "vlr_unitario", "vlr_final", "vlr_total_produto"}
AllCols == {"pedido", "cliente", "codigo", "produto", "emissao"} \cup NumericCols
\* the columns the specification lists as required
RequiredCols ==
    {"pedido", "cliente", "codigo", "produto", "emissao", "quantidade", "vlr_unitario"}

\* a date cell (a calendar day, numbered) ; any other cell is no date
DateCell(d) == [tag |-> "date", d |-> d]

T(s) == TextCell(s)
AnaSilva == <<"A", "n", "a", " ", "S", "i", "l", "v", "a">>
Beto == <<"B", "e", "t", "o">>
Mariana == <<"M", "a", "r", "i", "a", "n", "a">>

Row(pedido, cliente, codigo, emissao, quantidade, vlr_unitario, vlr_total_produto) ==
    [pedido |-> pedido, cliente |-> cliente, codigo |-> codigo,
     produto |-> T(<<"M">>), emissao |-> emissao, quantidade |-> quantidade,
     vlr_unitario |-> vlr_unitario, vlr_final |-> vlr_total_produto,
     vlr_total_produto |-> vlr_total_produto]

\* the rows source tables are built from: the two rows of the end-to-end
\* scenario, a row whose stored total (7) differs from 3 * 2, a row with an
\* empty customer, an unparseable quantity and an empty total, and a row in
\* pt-BR thousands format
RowSet ==
    { Row(NumCell(1, 0), T(AnaSilva), NumCell(100, 0), DateCell(1),
          T(<<"2">>), T(<<"1", "0", ",", "5", "0">>), T(<<"2", "1", ",", "0", "0">>)),
      Row(NumCell(2, 0), T(Beto), T(<<"2", "0", "0">>), T(<<"i", "n", "v", "a", "l", "i", "d">>),
          T(<<"1">>), T(<<"5", ",", "0", "0">>), T(<<"5", ",", "0", "0">>)),
      Row(NumCell(1, 0), T(Beto), T(<<"2", "0", "0">>), DateCell(2),
          NumCell(3, 0), NumCell(2, 0), NumCell(7, 0)),
      Row(NumCell(2, 0), None, T(<<"1", "0", "0">>), DateCell(2),
          T(<<"x">>), T(<<"1", ".", "5">>), None),
      Row(NumCell(3, 0), T(Mariana), NumCell(100, 0), DateCell(1),
          T(<<"1">>), T(<<"R", "$", " ", "1", ".", "2", "3", "4", ",", "5", "6">>),
          T(<<"1", ".", "2", "3", "4", ",", "5", "6">>)) }

Restrict(r, cols) == [c \in cols |-> r[c]]
Table(cols, rows) ==
    [tag |-> "table", cols |-> cols, rows |-> [i \in 1..Len(rows) |-> Restrict(rows[i], cols)]]
Missing == [tag |-> "Missing"]

\* the files: none, every table of up to MaxRows rows with all columns, and
\* the tables of at most one row with one column absent
Files ==
    {Missing}
    \cup {Table(AllCols, rows) : rows \in SeqsUpTo(RowSet, MaxRows)}
    \cup {Table(AllCols \ {c}, rows) : c \in AllCols, rows \in {<<>>} \cup {<<r>> : r \in RowSet}}
\* for the cache specification: none, the full tables and a table without
\* the date column
CacheFiles ==
    {Missing}
    \cup {Table(AllCols, rows) : rows \in SeqsUpTo(RowSet, MaxCacheRows)}
    \cup {Table(AllCols \ {"emissao"}, <<>>)}

----------------------------------------------------------------------------
(* carregar_dados *)

RECURSIVE IntToStr(_)
IntToStr(n) ==
    IF n < 10 THEN <<DigitChars[n + 1]>>
    ELSE IntToStr(n \div 10) \o <<DigitChars[(n % 10) + 1]>>

\* astype(str) on a code cell (the codes of RowSet are text or whole numbers)
AsStr(cell) ==
    IF cell = None THEN <<"n", "a", "n">>
    ELSE IF IsNum(cell) THEN IntToStr(cell.m)
    ELSE cell.s

\* pd.to_datetime(..., dayfirst=True, errors='coerce') on one cell: a date
\* cell is kept, anything else is NaT
to_datetime(cell) == IF cell.tag = "date" THEN cell ELSE None

\* fillna(0.0) on one value
fillna(v) == IF v = None THEN Norm(0, 0) ELSE v

\* the value a cell of column c has after read_excel's converters
Converted(c, cell) == IF c \in NumericCols THEN parse_ptbr(cell) ELSE cell

DataFrame(cols, rows) == [tag |-> "df", cols |-> cols, rows |-> rows]
LoadResult(ret, erro) == [ret |-> ret, erro |-> erro]

\* the body of carregar_dados on the file f: the returned value and the
\* st.error message it emitted
carregar_dados(f) ==
    IF f = Missing THEN LoadResult(None, "not_found")
    ELSE
    LET conv == [i \in 1..Len(f.rows) |-> [c \in f.cols |-> Converted(c, f.rows[i][c])]]
        raised == \E i \in 1..Len(conv) : \E c \in f.cols : conv[i][c].tag = "raise"
        dated == [i \in 1..Len(conv) |->
                     [c \in f.cols |-> IF c = "emissao" THEN to_datetime(conv[i][c]) ELSE conv[i][c]]]
        hasDate(r) == r["emissao"] # None
        kept == SelectSeq(dated, hasDate)
        filled == [i \in 1..Len(kept) |->
                      [c \in f.cols |-> IF c \in NumericCols THEN fillna(kept[i][c]) ELSE kept[i][c]]]
        coded == [i \in 1..Len(filled) |->
                     [c \in f.cols |-> IF c = "codigo" THEN AsStr(filled[i][c]) ELSE filled[i][c]]]
    IN  IF raised \/ "emissao" \notin f.cols \/ "codigo" \notin f.cols
        THEN LoadResult(None, "load_failed")
        ELSE LoadResult(DataFrame(f.cols, coded), None)

NoEntry == [tag |-> "NoEntry"]
\* a cache that stores nothing for a call that returned None
CacheStoreSkipsNone(result) == IF result.ret = None THEN NoEntry ELSE result
\* @st.cache_data: what is stored for a call that returned result (any
\* return value, None included)
CacheStore(result) == result

----------------------------------------------------------------------------
(* The page script, lines 102-220 *)

TodosOsCodigos == <<"Todos os Codigos">>
Shown(v) == [tag |-> "shown", v |-> v]

UpperLetters == <<"A", "B", "C", "D", "E", "F", "G", "H", "I", "J", "K", "L", "M",
                  "N", "O", "P", "Q", "R", "S", "T", "U", "V", "W", "X", "Y", "Z">>
LowerLetters == <<"a", "b", "c", "d", "e", "f", "g", "h", "i", "j", "k", "l", "m",
                  "n", "o", "p", "q", "r", "s", "t", "u", "v", "w", "x", "y", "z">>
lower(s) ==
    [i \in 1..Len(s) |->
        IF \E k \in 1..Len(UpperLetters) : UpperLetters[k] = s[i]
        THEN LowerLetters[CHOOSE k \in 1..Len(UpperLetters) : UpperLetters[k] = s[i]]
        ELSE s[i]]
IsSubstring(q, s) ==
    \E k \in 0..(Len(s) - Len(q)) : SubSeq(s, k + 1, k + Len(q)) = q

\* str.contains with case=True
str_contains_case_sensitive(cell, q) ==
    IF cell = None \/ cell.tag # "text" THEN FALSE ELSE IsSubstring(q, cell.s)
\* Series.str.contains(q, case=False, na=False, regex=False) on one cell
str_contains(cell, q) ==
    IF cell = None \/ cell.tag # "text" THEN FALSE
    ELSE IsSubstring(lower(q), lower(cell.s))

\* Series.dt.date.between(a, b, inclusive='both') on one date
between(d, a, b) == a <= d /\ d <= b

\* the guard with its operands swapped
InvalidRangeSwapped(data_inicial, data_final) == data_final > data_inicial
\* the guard of line 152
InvalidRange(data_inicial, data_final) == data_inicial > data_final

RECURSIVE SumSeq(_)
\* Series.sum()
SumSeq(s) == IF s = <<>> THEN Norm(0, 0) ELSE Add(s[1], SumSeq(Tail(s)))

\* Series.count() in place of nunique()
nunique_counts_rows(s) == Len(s)
\* Series.nunique(): the number of distinct non-null values
nunique(s) == Cardinality({s[i] : i \in 1..Len(s)} \ {None})

RECURSIVE SortDesc(_)
\* sort_values(by="Data da Venda", ascending=False), ties in frame order
SortDesc(rows) ==
    IF rows = <<>> THEN <<>>
    ELSE LET i == CHOOSE i \in 1..Len(rows) :
                      /\ \A j \in 1..Len(rows) : rows[j]["emissao"].d <= rows[i]["emissao"].d
                      /\ \A j \in 1..(i - 1) : rows[j]["emissao"].d < rows[i]["emissao"].d
         IN  <<rows[i]>> \o SortDesc(SubSeq(rows, 1, i - 1) \o SubSeq(rows, i + 1, Len(rows)))

colunas_mostrar == {"pedido", "emissao", "cliente", "codigo", "produto", "vlr_total_produto"}

Dates(df) == {df.rows[i]["emissao"].d : i \in 1..Len(df.rows)}
min_date(df) == CHOOSE d \in Dates(df) : \A e \in Dates(df) : d <= e
max_date(df) == CHOOSE d \in Dates(df) : \A e \in Dates(df) : e <= d
lista_codigos(df) == {df.rows[i]["codigo"] : i \in 1..Len(df.rows)} \cup {TodosOsCodigos}

Inputs(todo_periodo, data_inicial, data_final, codigo_selecionado, cliente_pesquisado) ==
    [todo_periodo |-> todo_periodo, data_inicial |-> data_inicial, data_final |-> data_final,
     codigo_selecionado |-> codigo_selecionado, cliente_pesquisado |-> cliente_pesquisado]

Queries == {<<>>, <<"a", "n", "a">>, <<"B", "E", "T", "O">>}

\* the widget values a user can supply on a page showing df
InputsFor(df) ==
    IF df.rows = <<>>
    THEN {Inputs(TRUE, None, None, TodosOsCodigos, q) : q \in Queries}
    ELSE {Inputs(TRUE, min_date(df), max_date(df), c, q) : c \in lista_codigos(df), q \in Queries}
         \cup {Inputs(FALSE, a, b, c, q) :
                  a \in min_date(df)..max_date(df), b \in min_date(df)..max_date(df),
                  c \in lista_codigos(df), q \in Queries}
\* the widget values of a first visit
DefaultInputsFor(df) ==
    IF df.rows = <<>> THEN {Inputs(TRUE, None, None, TodosOsCodigos, <<>>)}
    ELSE {Inputs(TRUE, min_date(df), max_date(df), TodosOsCodigos, <<>>)}

NotRun == [status |-> "not_run"]
Rendered(status, erro, load, inputs, df_filtrado, total_vendas, num_pedidos, df_display, compras_cliente) ==
    [status |-> status, erro |-> erro, load |-> load, inputs |-> inputs,
     df_filtrado |-> df_filtrado, total_vendas |-> total_vendas, num_pedidos |-> num_pedidos,
     df_display |-> df_display, compras_cliente |-> compras_cliente]

\* one run of the script on the value load that carregar_dados() gave and the
\* widget values in; widgetFails says whether the date widgets reject the
\* NaT bounds of an empty frame (the library decides; both are modelled)
Script(load, in, widgetFails) ==
    LET df == load.ret
        Col(rows, c) == [i \in 1..Len(rows) |-> rows[i][c]]
        inRange(r) == between(r["emissao"].d, in.data_inicial, in.data_final)
        byDate == IF in.todo_periodo \/ df.rows = <<>> THEN df.rows ELSE SelectSeq(df.rows, inRange)
        hasCode(r) == r["codigo"] = in.codigo_selecionado
        df_filtrado == IF in.codigo_selecionado # TodosOsCodigos THEN SelectSeq(byDate, hasCode) ELSE byDate
        total_vendas == SumSeq(Col(df_filtrado, "vlr_total_produto"))
        num_pedidos == Norm(nunique(Col(df_filtrado, "pedido")), 0)
        df_display == SortDesc([i \in 1..Len(df_filtrado) |-> Restrict(df_filtrado[i], colunas_mostrar)])
        isClient(r) == str_contains(r["cliente"], in.cliente_pesquisado)
        compras_cliente == SelectSeq(df.rows, isClient)
        \* lines 200-220, after a summary section that rendered f, t, n, d
        Search(f, t, n, d, warn) ==
            IF in.cliente_pesquisado = <<>>
            THEN Rendered("done", warn, load, in, f, t, n, d, None)
            ELSE IF "cliente" \notin df.cols
            THEN Rendered("exception", "KeyError", load, in, f, t, n, d, None)
            ELSE IF compras_cliente # <<>>
            THEN Rendered("done", warn, load, in, f, t, n, d, Shown(compras_cliente))
            ELSE Rendered("done", "no_client", load, in, f, t, n, d, None)
    IN  IF df = None
        THEN Rendered("load_error", load.erro, load, None, None, None, None, None, None)
        ELSE IF widgetFails
        THEN Rendered("exception", "widget", load, None, None, None, None, None, None)
        ELSE IF ~in.todo_periodo /\ df.rows # <<>> /\ InvalidRange(in.data_inicial, in.data_final)
        THEN Rendered("stopped", "invalid_range", load, in, None, None, None, None, None)
        ELSE IF df_filtrado = <<>>
        THEN Search(Shown(df_filtrado), None, None, None, "no_data")
        ELSE IF "vlr_total_produto" \notin df.cols \/ "pedido" \notin df.cols
        THEN Rendered("exception", "KeyError", load, in, Shown(df_filtrado), None, None, None, None)
        ELSE IF ~(colunas_mostrar \subseteq df.cols)
        THEN Rendered("exception", "KeyError", load, in, Shown(df_filtrado),
                      total_vendas, num_pedidos, None, None)
        ELSE Search(Shown(df_filtrado), total_vendas, num_pedidos, Shown(df_display), None)

\* carregar_dados() through @st.cache_data: the stored value on a hit, the
\* body's result on a miss
CachedLoad == IF cache # NoEntry THEN cache ELSE carregar_dados(file)

\* whether the date widgets reject the NaT bounds of an empty frame
WidgetOutcomes(load) ==
    IF load.ret # None /\ load.ret.rows = <<>> THEN BOOLEAN ELSE {FALSE}

\* a page run with any widget values: line 102, then the script
PageRun ==
    /\ runs < MaxRuns /\ reads <= MaxRuns
    /\ LET df_original == CachedLoad
       IN  /\ cache' = IF cache # NoEntry THEN cache ELSE CacheStore(df_original)
           /\ \E widgetFails \in WidgetOutcomes(df_original) :
              \E in \in (IF df_original.ret = None THEN {None} ELSE InputsFor(df_original.ret)) :
                  out' = Script(df_original, in, widgetFails)
    /\ reads' = IF cache # NoEntry THEN reads ELSE reads + 1
    /\ runs' = runs + 1
    /\ UNCHANGED <<file, parseVars>>

\* a page run with the widget values of a first visit
PageVisit ==
    /\ runs < MaxRuns /\ reads <= MaxRuns
    /\ LET df_original == CachedLoad
       IN  /\ cache' = IF cache # NoEntry THEN cache ELSE CacheStore(df_original)
           /\ \E widgetFails \in WidgetOutcomes(df_original) :
              \E in \in (IF df_original.ret = None THEN {None} ELSE DefaultInputsFor(df_original.ret)) :
                  out' = Script(df_original, in, widgetFails)
    /\ reads' = IF cache # NoEntry THEN reads ELSE reads + 1
    /\ runs' = runs + 1
    /\ UNCHANGED <<file, parseVars>>

\* vendas.xlsx is replaced, created or deleted
FileChange ==
    /\ \E f \in CacheFiles \ {file} : file' = f
    /\ runs' = 0
    /\ UNCHANGED <<cache, reads, out, parseVars>>

\* explicit cache invalidation (carregar_dados.clear(), "Clear cache")
ClearCache ==
    /\ cache # NoEntry
    /\ cache' = NoEntry
    /\ reads' = 0
    /\ runs' = 0
    /\ UNCHANGED <<file, out, parseVars>>

Init ==
    /\ x = None
    /\ parsed = Pending
    /\ file \in Files
    /\ cache = NoEntry
    /\ reads = 0
    /\ runs = 0
    /\ out = NotRun

Next == PageRun

Spec == Init /\ [][Next]_vars

InitCache ==
    /\ x = None
    /\ parsed = Pending
    /\ file \in CacheFiles
    /\ cache = NoEntry
    /\ reads = 0
    /\ runs = 0
    /\ out = NotRun

NextCache == PageVisit \/ FileChange \/ ClearCache

SpecCache == InitCache /\ [][NextCache]_vars

----------------------------------------------------------------------------
(* Page properties *)

Loaded == cache # NoEntry /\ cache.ret # None
Queried == out # NotRun /\ out.inputs # None

\* the three predicates of a FilterCriteria, on a loaded record r
DatePred(r, in) ==
    in.todo_periodo \/ (in.data_inicial <= r["emissao"].d /\ r["emissao"].d <= in.data_final)
CodePred(r, in) ==
    in.codigo_selecionado = TodosOsCodigos \/ r["codigo"] = in.codigo_selecionado
SameLetter(a, b) ==
    \/ a = b
    \/ \E k \in 1..Len(UpperLetters) : {a, b} = {UpperLetters[k], LowerLetters[k]}
CustomerPred(r, in) ==
    \/ in.cliente_pesquisado = <<>>
    \/ /\ r["cliente"] # None
       /\ LET q == in.cliente_pesquisado
              s == r["cliente"].s
          IN  \E k \in 0..(Len(s) - Len(q)) : \A j \in 1..Len(q) : SameLetter(q[j], s[k + j])
Matching(in) ==
    LET p(r) == DatePred(r, in) /\ CodePred(r, in) IN SelectSeq(out.load.ret.rows, p)

\* C1: every record of a loaded dataset has vlr_total_produto equal to
\* quantidade * vlr_unitario rounded to 2 places, whatever the source's total
\* column held.
C1_Claimed ==
    Loaded /\ {"quantidade", "vlr_unitario", "vlr_total_produto"} \subseteq cache.ret.cols =>
        \A i \in 1..Len(cache.ret.rows) :
            LET r == cache.ret.rows[i]
            IN  r["vlr_total_produto"] = Round2(Mul(r["quantidade"], r["vlr_unitario"]))

\* C2 as stated: the records shown for a customer query are exactly the
\* loaded records satisfying the date, code and customer predicates at once.
C2_Claimed ==
    Queried /\ out.compras_cliente # None =>
        LET p(r) == DatePred(r, out.inputs) /\ CodePred(r, out.inputs) /\ CustomerPred(r, out.inputs)
        IN  out.compras_cliente.v = SelectSeq(out.load.ret.rows, p)

\* C2 amended: the filtered rows are exactly the loaded records satisfying
\* the date-range and product-code predicates (an absent criterion imposes
\* no constraint); the customer query is answered separately, with exactly
\* the loaded records whose customer contains the query case-insensitively,
\* whatever the date range and product code are.
C2_TwoQueries ==
    Queried /\ out.status # "stopped" =>
        LET byCustomer(r) == CustomerPred(r, out.inputs)
            found == SelectSeq(out.load.ret.rows, byCustomer)
        IN  /\ out.df_filtrado = Shown(Matching(out.inputs))
            /\ out.compras_cliente # None => out.compras_cliente = Shown(found)
            /\ out.status = "done" /\ out.inputs.cliente_pesquisado # <<>> /\ found # <<>>
                   => out.compras_cliente = Shown(found)
C2_Witness ==
    /\ Queried /\ out.status = "done" /\ out.compras_cliente # None
    /\ out.inputs.codigo_selecionado # TodosOsCodigos
    /\ \E i \in 1..Len(out.compras_cliente.v) :
           ~CodePred(out.compras_cliente.v[i], out.inputs)

\* C5: a query with data_inicial > data_final is refused with the
\* invalid-range error and renders nothing: no filtered rows, no aggregates,
\* no detail table and no customer-search result, whatever the code and
\* customer criteria are.
IsInverted(in) ==
    in # None /\ ~in.todo_periodo /\ in.data_inicial > in.data_final
C5_InvalidRangeRefused ==
    out # NotRun /\ IsInverted(out.inputs) =>
        /\ out.status = "stopped" /\ out.erro = "invalid_range"
        /\ out.df_filtrado = None /\ out.df_display = None
        /\ out.total_vendas = None /\ out.num_pedidos = None
        /\ out.compras_cliente = None
C5_Witness ==
    /\ out # NotRun /\ IsInverted(out.inputs) /\ out.status = "stopped"
    /\ out.inputs.cliente_pesquisado # <<>>
    /\ out.inputs.codigo_selecionado # TodosOsCodigos

\* C6: the loaded set is exactly the source rows whose date parses, in
\* source order, and the loader reports a dropped-row count equal to the
\* number of source rows with an unparseable date.
DroppedReported(result) ==
    IF "dropped" \in DOMAIN result THEN Shown(result.dropped) ELSE None
C6_Claimed ==
    Loaded =>
        LET isDate(r) == r["emissao"].tag = "date"
            src == SelectSeq(file.rows, isDate)
            asRead == {"pedido", "cliente", "produto", "emissao"} \cap file.cols
        IN  /\ Len(cache.ret.rows) = Len(src)
            /\ \A i \in 1..Len(src) : Restrict(cache.ret.rows[i], asRead) = Restrict(src[i], asRead)
            /\ DroppedReported(cache) = Shown(Len(file.rows) - Len(src))

\* C7: for each required column, a source lacking it ends the load in an
\* error and no dataset is returned.
C7_Claimed ==
    \A c \in RequiredCols :
        file # Missing /\ c \notin file.cols /\ out # NotRun =>
            out.status = "load_error" /\ cache.ret = None

RECURSIVE SumFromEnd(_)
SumFromEnd(s) ==
    IF s = <<>> THEN Norm(0, 0) ELSE Add(SumFromEnd(SubSeq(s, 1, Len(s) - 1)), s[Len(s)])
RefTotal(rows) == SumFromEnd([i \in 1..Len(rows) |-> rows[i]["vlr_total_produto"]])
RefOrders(rows) == Cardinality({rows[i]["pedido"] : i \in 1..Len(rows)} \ {None})

\* C8 as stated: the aggregate of every completed query has total_value =
\* sum of the line totals of the matching rows and distinct_order_count =
\* number of distinct order ids among them, 0 and 0 when no row matches.
C8_Claimed ==
    Queried /\ out.status = "done" /\ colunas_mostrar \subseteq out.load.ret.cols =>
        /\ out.total_vendas = RefTotal(Matching(out.inputs))
        /\ out.num_pedidos = Norm(RefOrders(Matching(out.inputs)), 0)

\* C8 amended: when at least one row matches, the aggregate shown has
\* total_value = sum of the line totals of exactly the matching rows and
\* distinct_order_count = number of distinct order ids among them; when no
\* row matches, no aggregate is produced (the page shows a no-data warning).
C8_Aggregate ==
    Queried /\ out.status # "stopped" =>
        LET m == Matching(out.inputs)
        IN  /\ m = <<>> => out.total_vendas = None /\ out.num_pedidos = None
            /\ out.total_vendas # None =>
                   /\ out.total_vendas = RefTotal(m)
                   /\ out.num_pedidos = Norm(RefOrders(m), 0)
            /\ m # <<>> /\ out.status = "done" => out.total_vendas # None
C8_Witness ==
    /\ Queried /\ out.status = "done" /\ out.total_vendas # None
    /\ Len(out.df_filtrado.v) = 2
    /\ out.num_pedidos = Norm(1, 0)
    /\ ~out.inputs.todo_periodo

\* C9: without a cache invalidation the source file is read at most once
\* and every run observes the load outcome of that one read (the same
\* record set or the same failure), whatever happens to the file; the
\* cached outcome changes only through an invalidation.
C9_LoadedOnce ==
    /\ [](reads <= 1 /\ (cache # NoEntry => out # NotRun /\ out.load = cache))
    /\ [][cache # NoEntry /\ cache' # NoEntry => cache' = cache /\ reads' = reads]_vars
C9_Witness ==
    /\ cache # NoEntry /\ reads = 1 /\ runs >= 1
    /\ carregar_dados(file) # cache
    /\ cache.ret = None /\ carregar_dados(file).ret # None
    /\ out.status = "load_error"

----------------------------------------------------------------------------
(* Parser specification: one call of parse_ptbr on an enumerated argument *)

ParseAlphabet == {"0", "1", ",", ".", "-", " ", "R"}
Examples ==
    { <<"1", ".", "2", "3", "4", ",", "5", "6">>,
      <<"1", ",", "2", "3", "4", ".", "5", "6">>,
      <<"1", "2", "3", "4", ",", "5">>,
      <<"R", "$", " ", "-", "5">>,
      <<"1", "2", "-", "3">>,
      <<"1", ".", "2", ".", "3">> }
ParseInputs ==
    {None} \cup {NumCell(m, 0) : m \in {0, 42}} \cup {NumCell(-15, 1)}
    \cup {TextCell(s) : s \in SeqsUpTo(ParseAlphabet, MaxLen) \cup Examples}

InitParse ==
    /\ x \in ParseInputs
    /\ parsed = Pending
    /\ file = Missing
    /\ cache = NoEntry
    /\ reads = 0
    /\ runs = 0
    /\ out = NotRun

Parse ==
    /\ parsed = Pending
    /\ parsed' = parse_ptbr(x)
    /\ UNCHANGED <<x, pageVars>>

NextParse == Parse

SpecParse == InitParse /\ [][NextParse]_vars

----------------------------------------------------------------------------
(* Parser properties *)

\* the separator rule as the specification words it, on a token of digits,
\* ',' and '.' with an optional leading '-'
IsSepToken(s) ==
    \A i \in 1..Len(s) : s[i] \in Digit \cup {",", "."} \/ (i = 1 /\ s[i] = "-")
LastOcc(s, c) ==
    IF Contains(s, c) THEN CHOOSE i \in 1..Len(s) : s[i] = c /\ ~Contains(SubSeq(s, i + 1, Len(s)), c)
    ELSE 0
RefText(s) ==
    LET hasC == Contains(s, ",")
        hasD == Contains(s, ".")
        dec == IF hasC /\ (~hasD \/ LastOcc(s, ",") > LastOcc(s, ".")) THEN "," ELSE "."
        thousands == IF dec = "," THEN "." ELSE ","
        kept == {i \in 1..Len(s) : ~(hasC /\ hasD /\ s[i] = thousands)}
        isKept(i) == i \in kept
        idx == SelectSeq([i \in 1..Len(s) |-> i], isKept)
    IN  [k \in 1..Len(idx) |-> IF s[idx[k]] = dec THEN "." ELSE s[idx[k]]]
RefParse(s) ==
    LET r == float(RefText(s)) IN IF IsNum(r) THEN r ELSE None

Done == parsed # Pending
IsText(v) == v.tag = "text"

\* C3: on every token of digits, commas and periods (optional leading minus)
\* parse_ptbr agrees with the reference disambiguation: with both separators
\* the one occurring last is the decimal separator and the other is removed,
\* a lone ',' is the decimal separator, otherwise the text is used as-is;
\* "1.234,56" and "1,234.56" give 1234.56 and "1234,5" gives 1234.5.
C3_SeparatorRule ==
    Done /\ IsText(x) /\ IsSepToken(x.s) =>
        /\ parsed = RefParse(x.s)
        /\ x.s = <<"1", ".", "2", "3", "4", ",", "5", "6">> => parsed = Norm(123456, 2)
        /\ x.s = <<"1", ",", "2", "3", "4", ".", "5", "6">> => parsed = Norm(123456, 2)
        /\ x.s = <<"1", "2", "3", "4", ",", "5">> => parsed = Norm(12345, 1)
C3_Witness ==
    /\ x = TextCell(<<"1", ".", "2", "3", "4", ",", "5", "6">>)
    /\ parsed = Norm(123456, 2)

\* C4: parse_ptbr returns a number or the failure value None and never
\* raises; an absent input, a text without any digit (empty, blank, only
\* symbols or letters, a bare minus) and a text left with more than one
\* decimal point all return None, never zero.
HasDigit(s) == \E i \in 1..Len(s) : s[i] \in Digit
C4_FailureIsNone ==
    Done =>
        /\ parsed.tag \in {"num", "None"}
        /\ x = None => parsed = None
        /\ IsText(x) /\ ~HasDigit(x.s) => parsed = None
        /\ IsText(x) /\ Count(Normalize(ReSub(strip(x.s))), ".") > 1 => parsed = None
        /\ parsed = Norm(0, 0) => IsNum(x) \/ (IsText(x) /\ Contains(x.s, "0"))
C4_Witness ==
    /\ x = TextCell(<<"1", ".", "2", ".", "3">>)
    /\ parsed = None

\* C10 as stated: only a leading minus survives the stripping, so a token
\* with a minus elsewhere is parsed from its digits and separators alone.
C10_Claimed ==
    Done /\ IsText(x) =>
        LET s == strip(x.s)
            keep(c) == c \in Digit \cup {",", "."}
            t == (IF s # <<>> /\ s[1] = "-" THEN <<"-">> ELSE <<>>) \o SelectSeq(s, keep)
        IN  parsed = IF t = <<>> THEN None ELSE RefParse(t)

\* C10 amended: every minus sign is kept wherever it stands.  A token with
\* a minus sign after a digit returns None ("12-3", "5-"); a token whose kept
\* characters (digits, ',', '.', '-') start with the only minus gives the
\* negative of the rest ("R$ -5" gives -5).
Neg(v) == IF IsNum(v) THEN Norm(-v.m, v.e) ELSE v
C10_MinusKept ==
    Done /\ IsText(x) =>
        LET keep(c) == c \in Digit \cup {",", ".", "-"}
            t == SelectSeq(x.s, keep)
        IN  /\ (\E i, j \in 1..Len(t) : i < j /\ t[i] \in Digit /\ t[j] = "-") => parsed = None
            /\ Count(t, "-") = 1 /\ t[1] = "-" => parsed = Neg(RefParse(Tail(t)))
C10_Witness ==
    /\ x = TextCell(<<"1", "2", "-", "3">>)
    /\ parsed = None

====
